---- MODULE Spec2Model ----
(***************************************************************************)
(* dev-utilities (src/src/index.js): the composed-tree helpers             *)
(* walkComposedTree, composedAncestors, deepContains, getDeepActiveElement *)
(* and the event helper redispatchEventFromEvent, over a DOM tree with     *)
(* shadow roots and slot assignment.                                       *)
(***************************************************************************)
EXTENDS Integers, Sequences, FiniteSets, TLC

\* Number of nodes of the DOM tree handed to the library.
MaxNode == 5

\* JavaScript null / undefined (falsy); node handles are 1..MaxNode.
null == 0

Nodes == 1..MaxNode

\* The Document object: a value distinct from null and from every node.
document == MaxNode + 1

\* Node kinds: HTMLElement (not a slot), HTMLSlotElement, Text, ShadowRoot.
Kinds == {"element", "slot", "text", "shadow"}

VARIABLES
  nodeKind,      \* node -> kind
  parentNode,    \* node -> Node.parentNode (null for the top node and for shadow roots)
  host,          \* node -> ShadowRoot.host (null unless the node is a shadow root)
  assignedSlot,  \* node -> the slot the node is assigned to, or null
  focused,       \* the element holding input focus, or null
  op,            \* which library function is running: "none" until one is called
  wArgs,         \* walkComposedTree: [node, whatToShow, filter, skipNode]
  stack,         \* walkComposedTree: the generator's frames [node, children, i]
  out,           \* nodes yielded so far by the running generator
  visits,        \* walkComposedTree: every call made, as <<node, calling frame's node>>
  pc,            \* position of the running function
  current,       \* composedAncestors: the loop variable
  args,          \* arguments of deepContains / getDeepActiveElement
  result,        \* value returned by deepContains / getDeepActiveElement / redispatch
  ev,            \* redispatchEventFromEvent: the original event and the calls made on it
  element,       \* redispatchEventFromEvent: the element, as [shadowRoot |-> BOOLEAN]
  options,       \* redispatchEventFromEvent: the overrides (own properties of options)
  copy,          \* redispatchEventFromEvent: the init dictionary / the constructed copy
  dispatched     \* redispatchEventFromEvent: what element.dispatchEvent(copy) returned

domVars == <<nodeKind, parentNode, host, assignedSlot>>
walkVars == <<wArgs, stack, out, visits>>
eventVars == <<ev, element, options, copy, dispatched>>
vars == <<nodeKind, parentNode, host, assignedSlot, focused, op, wArgs, stack, out,
          visits, pc, current, args, result, ev, element, options, copy, dispatched>>

----------------------------------------------------------------------------
(* The DOM trees the library can be handed.  A tree is built node by node  *)
(* in tree order: node n hangs under a node of the path from n-1 up to the *)
(* top, as a child (parentNode) or, for a shadow root, as host.shadowRoot. *)

RECURSIVE UpChain(_, _)
UpChain(up, n) == IF n = null THEN {} ELSE {n} \cup UpChain(up, up[n])

CanExtend(t, k, p) ==
  IF k = "shadow"
    THEN /\ t.kind[p] = "element"
         /\ \A m \in 1..Len(t.kind) : ~(t.kind[m] = "shadow" /\ t.up[m] = p)
    ELSE t.kind[p] # "text"

RECURSIVE Trees(_)
Trees(n) ==
  IF n = 1
    THEN {[kind |-> <<"element">>, up |-> <<null>>]}
    ELSE UNION {{[kind |-> Append(t.kind, k), up |-> Append(t.up, p)] :
                   <<k, p>> \in {kp \in Kinds \X UpChain(t.up, n - 1) :
                                   CanExtend(t, kp[1], kp[2])}} :
                t \in Trees(n - 1)}

\* Root of the node tree of n in tree t: the top node or a shadow root.
RECURSIVE TreeRootOf(_, _)
TreeRootOf(t, n) ==
  IF t.kind[n] = "shadow" \/ t.up[n] = null THEN n ELSE TreeRootOf(t, t.up[n])

ShadowOf(t, h) == {m \in 1..Len(t.kind) : t.kind[m] = "shadow" /\ t.up[m] = h}

\* The slots a child of a shadow host can be assigned to: those of the host's
\* shadow tree (by name or manually); null when it is assigned to none.
SlotChoices(t, n) ==
  IF t.kind[n] = "shadow" \/ t.up[n] = null
    THEN {null}
    ELSE {null} \cup {s \in 1..Len(t.kind) :
                        /\ t.kind[s] = "slot"
                        /\ TreeRootOf(t, s) \in ShadowOf(t, t.up[n])}

RECURSIVE Assignments(_, _)
Assignments(t, n) ==
  IF n = 0 THEN {<<>>}
  ELSE {Append(a, s) : <<a, s>> \in Assignments(t, n - 1) \X SlotChoices(t, n)}

InitDom ==
  \E t \in Trees(MaxNode) : \E a \in Assignments(t, MaxNode) :
    /\ nodeKind = t.kind
    /\ parentNode = [n \in Nodes |-> IF t.kind[n] = "shadow" THEN null ELSE t.up[n]]
    /\ host = [n \in Nodes |-> IF t.kind[n] = "shadow" THEN t.up[n] ELSE null]
    /\ assignedSlot = a

----------------------------------------------------------------------------
(* DOM accessors the library reads.                                         *)

RECURSIVE SortedSeq(_)
SortedSeq(S) ==
  IF S = {} THEN <<>>
  ELSE LET m == CHOOSE x \in S : \A y \in S : x <= y
       IN <<m>> \o SortedSeq(S \ {m})

\* Node.nodeType: ELEMENT_NODE 1, TEXT_NODE 3, DOCUMENT_FRAGMENT_NODE 11.
nodeType(n) ==
  CASE nodeKind[n] \in {"element", "slot"} -> 1
    [] nodeKind[n] = "text" -> 3
    [] nodeKind[n] = "shadow" -> 11

isHTMLElement(n) == n # null /\ nodeKind[n] \in {"element", "slot"}
isHTMLSlotElement(n) == n # null /\ nodeKind[n] = "slot"
isShadowRoot(n) == n # null /\ nodeKind[n] = "shadow"

\* Element.shadowRoot: the attached shadow root, or null.
shadowRoot(n) ==
  IF \E m \in Nodes : host[m] = n THEN CHOOSE m \in Nodes : host[m] = n ELSE null

\* Node.childNodes: every child, in document order.
childNodes(n) == SortedSeq({m \in Nodes : parentNode[m] = n})

\* ParentNode.children: the element children only, in document order.
elementChildren(n) == SortedSeq({m \in Nodes : parentNode[m] = n /\ isHTMLElement(m)})

\* Node.getRootNode(): the top of the parentNode chain.
RECURSIVE rootNode(_)
rootNode(n) == IF parentNode[n] = null THEN n ELSE rootNode(parentNode[n])

RECURSIVE FlatMap(_, _)
\* HTMLSlotElement.assignedNodes({flatten: true}): nothing for a slot outside a
\* shadow tree; else the assigned nodes, or the slot's own children when none
\* is assigned, each slot of a shadow tree among them replaced by its own
\* flattened nodes.
RECURSIVE assignedNodesFlatten(_)
assignedNodesFlatten(s) ==
  IF ~isShadowRoot(rootNode(s)) THEN <<>>
  ELSE LET assigned == SortedSeq({m \in Nodes : assignedSlot[m] = s})
           slottables == IF assigned = <<>> THEN childNodes(s) ELSE assigned
       IN FlatMap(slottables, 1)

FlatMap(seq, i) ==
  IF i > Len(seq) THEN <<>>
  ELSE (IF isHTMLSlotElement(seq[i]) /\ isShadowRoot(rootNode(seq[i]))
          THEN assignedNodesFlatten(seq[i])
          ELSE <<seq[i]>>) \o FlatMap(seq, i + 1)

----------------------------------------------------------------------------
(* walkComposedTree: a generator.  One WalkNext is one next() of the       *)
(* consumer: the generator runs to its next yield or to its end.           *)

filter(n) == n \notin wArgs.filterFalse
skipNode(n) == n \in wArgs.skipTrue

\* Rejected, were a node the filter refuses treated as a pruned one.
Rejected_filterPrunes(n) ==
  \/ wArgs.whatToShow # 0 /\ nodeType(n) # wArgs.whatToShow
  \/ skipNode(n)
  \/ ~filter(n)

\* Rejected, were the node type never compared.
Rejected_noTypeCheck(n) == skipNode(n)

\* Line 162: the branch is left at once.
Rejected(n) ==
  \/ wArgs.whatToShow # 0 /\ nodeType(n) # wArgs.whatToShow
  \/ skipNode(n)

\* composedChildren, were the element children taken everywhere.
composedChildren_elementsOnly(n) ==
  IF isHTMLElement(n) /\ shadowRoot(n) # null
    THEN elementChildren(shadowRoot(n))
    ELSE IF isHTMLSlotElement(n)
           THEN assignedNodesFlatten(n)
           ELSE elementChildren(n)

\* composedChildren, were the shadow root itself walked as the host's child.
composedChildren_intoShadowRoot(n) ==
  IF isHTMLElement(n) /\ shadowRoot(n) # null
    THEN <<shadowRoot(n)>>
    ELSE IF isHTMLSlotElement(n)
           THEN assignedNodesFlatten(n)
           ELSE childNodes(n)

\* composedChildren, were a slot's assigned nodes not flattened.
composedChildren_noFlatten(n) ==
  IF isHTMLElement(n) /\ shadowRoot(n) # null
    THEN elementChildren(shadowRoot(n))
    ELSE IF isHTMLSlotElement(n)
           THEN SortedSeq({m \in Nodes : assignedSlot[m] = n})
           ELSE childNodes(n)

\* composedChildren, were a host's light children walked after its shadow tree.
composedChildren_alsoLightChildren(n) ==
  IF isHTMLElement(n) /\ shadowRoot(n) # null
    THEN elementChildren(shadowRoot(n)) \o childNodes(n)
    ELSE IF isHTMLSlotElement(n)
           THEN assignedNodesFlatten(n)
           ELSE childNodes(n)

\* Lines 170-175: the children the walk recurses into.
composedChildren(n) ==
  IF isHTMLElement(n) /\ shadowRoot(n) # null
    THEN elementChildren(shadowRoot(n))
    ELSE IF isHTMLSlotElement(n)
           THEN assignedNodesFlatten(n)
           ELSE childNodes(n)

\* ThrowsOnEntry, were node.nodeType of a null node read without an error.
ThrowsOnEntry_never(n) == FALSE

\* Line 162: reading a property of null throws a TypeError.
ThrowsOnEntry(n) == n = null /\ wArgs.whatToShow # 0

Frame(n) == [node |-> n, children |-> <<>>, i |-> 0]

RECURSIVE Enter(_, _, _, _)
RECURSIVE Continue(_, _)

\* The call walkComposedTree(n, ...) made from the frame of `from`, up to its
\* yield (the frame is left suspended at line 167, i = 0) or its return.
Enter(stk, vis, n, from) ==
  LET vis2 == Append(vis, <<n, from>>)
  IN IF ThrowsOnEntry(n)
       THEN [stack |-> stk, visits |-> vis2, yielded |-> <<>>, pc |-> "threw"]
     ELSE IF n # null /\ Rejected(n)
       THEN Continue(stk, vis2)
     ELSE IF filter(n)
       THEN [stack |-> Append(stk, Frame(n)), visits |-> vis2,
             yielded |-> <<n>>, pc |-> "yield"]
     ELSE IF n = null
       THEN [stack |-> stk, visits |-> vis2, yielded |-> <<>>, pc |-> "threw"]
     ELSE Continue(Append(stk, [node |-> n, children |-> composedChildren(n), i |-> 1]),
                   vis2)

\* The for-of loop of the innermost frame (lines 177-179), returning to the
\* caller's loop when the children are exhausted.
Continue(stk, vis) ==
  IF stk = <<>>
    THEN [stack |-> stk, visits |-> vis, yielded |-> <<>>, pc |-> "done"]
  ELSE LET f == stk[Len(stk)]
       IN IF f.i > Len(f.children)
            THEN Continue(SubSeq(stk, 1, Len(stk) - 1), vis)
            ELSE Enter([stk EXCEPT ![Len(stk)].i = f.i + 1], vis, f.children[f.i], f.node)

\* Resuming after a yield: the suspended frame computes its children.
Resume(stk, vis) ==
  LET f == stk[Len(stk)]
  IN IF f.node = null
       THEN [stack |-> stk, visits |-> vis, yielded |-> <<>>, pc |-> "threw"]
       ELSE Continue([stk EXCEPT ![Len(stk)] =
                        [node |-> f.node, children |-> composedChildren(f.node), i |-> 1]],
                     vis)

\* Every node a walk from n can come to, whatever the predicates answer.
RECURSIVE ComposedReach(_)
ComposedReach(n) ==
  IF n = null THEN {}
  ELSE LET c == composedChildren(n)
       IN {n} \cup UNION {ComposedReach(c[i]) : i \in 1..Len(c)}

\* The predicates the model passes: constant (the defaults) except on at most
\* one node each, a node the walk can come to.
Holes(n) == {{}} \cup {{m} : m \in ComposedReach(n)}

\* whatToShow: 0 (no type filter) or 1 (ELEMENT_NODE).
CallWalk ==
  /\ op = "none"
  /\ \E n \in Nodes \cup {null}, w \in {0, 1} :
       \E ff \in Holes(n), st \in Holes(n) :
         wArgs' = [node |-> n, whatToShow |-> w, filterFalse |-> ff, skipTrue |-> st]
  /\ op' = "walk"
  /\ pc' = "start"
  /\ UNCHANGED <<domVars, focused, stack, out, visits, current, args, result, eventVars>>

WalkNext ==
  /\ op = "walk"
  /\ pc \in {"start", "yield"}
  /\ LET r == IF pc = "start" THEN Enter(<<>>, <<>>, wArgs.node, null)
                               ELSE Resume(stack, visits)
     IN /\ stack' = r.stack
        /\ visits' = r.visits
        /\ out' = out \o r.yielded
        /\ pc' = r.pc
  /\ UNCHANGED <<domVars, focused, op, wArgs, current, args, result, eventVars>>

NextWalk == CallWalk \/ WalkNext

----------------------------------------------------------------------------
(* composedAncestors: a generator.  One AncestorsNext is one next().        *)

\* Lines 237-242: the node the loop moves to.
ancestorsNext(c) ==
  IF isHTMLElement(c) /\ assignedSlot[c] # null
    THEN assignedSlot[c]
    ELSE IF isShadowRoot(c) THEN host[c] ELSE parentNode[c]

CallAncestors ==
  /\ op = "none"
  /\ \E n \in Nodes :
       /\ args' = [node |-> n]
       /\ current' = n
  /\ op' = "ancestors"
  /\ pc' = "start"
  /\ UNCHANGED <<domVars, focused, walkVars, result, eventVars>>

AncestorsNext ==
  /\ op = "ancestors"
  /\ pc \in {"start", "yield"}
  /\ LET next == IF current = null THEN null ELSE ancestorsNext(current)
     IN /\ out' = IF next # null THEN Append(out, next) ELSE out
        /\ current' = next
        /\ pc' = IF next # null THEN "yield" ELSE "done"
  /\ UNCHANGED <<domVars, focused, op, wArgs, stack, visits, args, result, eventVars>>

----------------------------------------------------------------------------
(* deepContains.                                                            *)

\* Line 214: current.assignedSlot || current.parentNode || current.host.
deepParent(c) ==
  IF assignedSlot[c] # null THEN assignedSlot[c]
  ELSE IF parentNode[c] # null THEN parentNode[c]
  ELSE host[c]

\* Lines 212-220: the while loop, from `current` on.
RECURSIVE deepContainsFrom(_, _)
deepContainsFrom(container, c) ==
  IF c = null THEN FALSE
  ELSE IF deepParent(c) = container THEN TRUE
  ELSE deepContainsFrom(container, deepParent(c))

deepContains(container, target) == deepContainsFrom(container, target)

CallDeepContains ==
  /\ op = "none"
  /\ \E container \in Nodes, target \in Nodes :
       /\ args' = [container |-> container, target |-> target]
       /\ result' = deepContains(container, target)
  /\ op' = "deepContains"
  /\ pc' = "done"
  /\ UNCHANGED <<domVars, focused, walkVars, current, eventVars>>

NextAncestors == CallAncestors \/ AncestorsNext \/ CallDeepContains

----------------------------------------------------------------------------
(* getDeepActiveElement.  The top node of the tree is document.body; focus  *)
(* is on one rendered element or on none.                                   *)

body == 1

\* The flat tree the browser renders: a host shows its shadow tree, a slot
\* its flattened assigned nodes.
flatChildren(n) ==
  IF shadowRoot(n) # null THEN childNodes(shadowRoot(n))
  ELSE IF isHTMLSlotElement(n) THEN assignedNodesFlatten(n)
  ELSE childNodes(n)

RECURSIVE FlatReach(_)
FlatReach(n) ==
  LET c == flatChildren(n)
  IN {n} \cup UNION {FlatReach(c[i]) : i \in 1..Len(c)}

Focusable == {n \in FlatReach(body) : nodeKind[n] = "element"}

\* DocumentOrShadowRoot.activeElement: the focused element retargeted into
\* the scope's own tree; body for a document without focus, null for a shadow
\* root that does not contain the focus.
RECURSIVE retarget(_, _)
retarget(n, scopeRoot) ==
  IF rootNode(n) = scopeRoot THEN n
  ELSE IF isShadowRoot(rootNode(n)) THEN retarget(host[rootNode(n)], scopeRoot)
  ELSE null

activeElement(root) ==
  IF root = document
    THEN IF focused = null THEN body ELSE retarget(focused, body)
  ELSE IF isShadowRoot(root)
    THEN IF focused = null THEN null ELSE retarget(focused, root)
  ELSE null

\* Lines 187-196.
RECURSIVE getDeepActiveElement(_)
getDeepActiveElement(root) ==
  LET activeEl == IF root = null THEN null ELSE activeElement(root)
  IN IF activeEl # null
       THEN IF shadowRoot(activeEl) # null
              THEN LET deeper == getDeepActiveElement(shadowRoot(activeEl))
                   IN IF deeper # null THEN deeper ELSE activeEl
              ELSE activeEl
       ELSE body

\* element.focus() by the user or the page.
Focus ==
  /\ op = "none"
  /\ focused = null
  /\ \E n \in Focusable : focused' = n
  /\ UNCHANGED <<domVars, op, walkVars, pc, current, args, result, eventVars>>

CallGetDeepActiveElement ==
  /\ op = "none"
  /\ \E root \in {document} \cup {n \in Nodes : isShadowRoot(n)} :
       /\ args' = [root |-> root]
       /\ result' = getDeepActiveElement(root)
  /\ op' = "getDeepActiveElement"
  /\ pc' = "done"
  /\ UNCHANGED <<domVars, focused, walkVars, current, eventVars>>

NextActive == Focus \/ CallGetDeepActiveElement

----------------------------------------------------------------------------
(* redispatchEventFromEvent and redispatchEvent.                            *)

EventInitFields == {"bubbles", "cancelable", "composed"}

\* An options object: any of the EventInit fields, each true or false.
OptionObjects == UNION {[d -> BOOLEAN] : d \in SUBSET EventInitFields}

\* {...ev}: the own enumerable properties of an Event.  bubbles, cancelable
\* and composed are getters of Event.prototype; only isTrusted is own.
SpreadEvent(e) == [f \in {"isTrusted"} |-> e.isTrusted]

\* {...a, ...b}
SpreadMerge(a, b) ==
  [f \in DOMAIN a \cup DOMAIN b |-> IF f \in DOMAIN b THEN b[f] ELSE a[f]]

\* new ev.constructor(type, init): an absent EventInit field is false.
ConstructEvent(init) ==
  [f \in EventInitFields |-> IF f \in DOMAIN init THEN init[f] ELSE FALSE]

NewEvent(b, c, k) ==
  [bubbles |-> b, composed |-> c, cancelable |-> k, isTrusted |-> FALSE, calls |-> <<>>]

\* redispatchEventFromEvent(element, ev, options)
CallRedispatchEventFromEvent ==
  /\ op = "none"
  /\ \E sr \in BOOLEAN, b \in BOOLEAN, c \in BOOLEAN, k \in BOOLEAN, o \in OptionObjects :
       /\ element' = [shadowRoot |-> sr]
       /\ ev' = NewEvent(b, c, k)
       /\ options' = o
  /\ args' = [entry |-> "redispatchEventFromEvent"]
  /\ op' = "redispatch"
  /\ pc' = "line29"
  /\ UNCHANGED <<domVars, focused, walkVars, current, result, copy, dispatched>>

\* redispatchEvent(element, 'type', options): lines 65-68, new CustomEvent(type).
CallRedispatchEvent ==
  /\ op = "none"
  /\ \E sr \in BOOLEAN, o \in OptionObjects :
       /\ element' = [shadowRoot |-> sr]
       /\ ev' = NewEvent(FALSE, FALSE, FALSE)
       /\ options' = o
  /\ args' = [entry |-> "redispatchEvent"]
  /\ op' = "redispatch"
  /\ pc' = "line29"
  /\ UNCHANGED <<domVars, focused, walkVars, current, result, copy, dispatched>>

\* StopsPropagation, were the element's shadow root not looked at.
StopsPropagation_anyBubbling == ev.bubbles

\* Line 29.
StopsPropagation == ev.bubbles /\ (~element.shadowRoot \/ ev.composed)

\* Line 33.
CopyInit == SpreadMerge(SpreadEvent(ev), options)

\* Lines 29-33.
RedispatchCopy ==
  /\ op = "redispatch"
  /\ pc = "line29"
  /\ ev' = IF StopsPropagation
             THEN [ev EXCEPT !.calls = Append(@, "stopPropagation")]
             ELSE ev
  /\ copy' = ConstructEvent(CopyInit)
  /\ pc' = "line34"
  /\ UNCHANGED <<domVars, focused, op, walkVars, current, args, result, element, options,
                 dispatched>>

\* Line 34: element.dispatchEvent(copy).  A listener may call preventDefault
\* on the copy; dispatchEvent returns false when the copy is cancelable and a
\* listener did.
DispatchCopy ==
  /\ op = "redispatch"
  /\ pc = "line34"
  /\ \E listenerPrevents \in BOOLEAN :
       dispatched' = ~(copy.cancelable /\ listenerPrevents)
  /\ ev' = [ev EXCEPT !.calls = Append(@, "dispatchEvent")]
  /\ pc' = "line35"
  /\ UNCHANGED <<domVars, focused, op, walkVars, current, args, result, element, options,
                 copy>>

\* CallsPreventDefault, were the test of line 35 inverted.
CallsPreventDefault_inverted == dispatched

\* Line 35.
CallsPreventDefault == ~dispatched

\* Lines 35-39.
RedispatchReturn ==
  /\ op = "redispatch"
  /\ pc = "line35"
  /\ ev' = IF CallsPreventDefault
             THEN [ev EXCEPT !.calls = Append(@, "preventDefault")]
             ELSE ev
  /\ result' = dispatched
  /\ pc' = "done"
  /\ UNCHANGED <<domVars, focused, op, walkVars, current, args, element, options, copy,
                 dispatched>>

NextEvent ==
  \/ CallRedispatchEventFromEvent
  \/ CallRedispatchEvent
  \/ RedispatchCopy
  \/ DispatchCopy
  \/ RedispatchReturn

----------------------------------------------------------------------------
(* randomID.  A string is the sequence of its characters.                   *)

\* Longest fraction Math.random().toString(36) has in the model.
MaxDigits == 3

\* Largest magnitude of the length argument in the model.
MaxLength == 4

\* length = 10
DefaultLength == 10

\* Base-36 digits the fraction is drawn from.
Base36Digits == {"7", "k"}

RECURSIVE DigitStrings(_)
DigitStrings(n) ==
  IF n = 0 THEN {<<>>}
  ELSE {Append(s, d) : <<s, d>> \in DigitStrings(n - 1) \X Base36Digits}

\* Math.random().toString(36): "0" for 0, else "0." and the fraction's digits.
RandomStrings ==
  {<<"0">>} \cup
  {<<"0", ".">> \o s : s \in UNION {DigitStrings(n) : n \in 1..MaxDigits}}

Clamp(x, len) == IF x < 0 THEN 0 ELSE IF x > len THEN len ELSE x

\* String.prototype.substring(start, end): both clamped to 0..length, and
\* swapped when start is the larger.
substring(str, start, end) ==
  LET a == Clamp(start, Len(str))
      b == Clamp(end, Len(str))
      from == IF a < b THEN a ELSE b
      to == IF a < b THEN b ELSE a
  IN SubSeq(str, from + 1, to)

\* Line 269.
randomID(random, length) == substring(random, 2, length)

CallRandomID ==
  /\ op = "none"
  /\ \E random \in RandomStrings, length \in ((0 - MaxLength)..MaxLength) \cup {DefaultLength} :
       /\ args' = [random |-> random, length |-> length]
       /\ result' = randomID(random, length)
  /\ op' = "randomID"
  /\ pc' = "done"
  /\ UNCHANGED <<domVars, focused, walkVars, current, eventVars>>

NextRandom == CallRandomID

----------------------------------------------------------------------------
(* isFocusable.  An element is its tag name and the attributes the          *)
(* selectors of lines 109 and 116 read.                                     *)

\* Tags the selector of line 109 names, a plain one, a custom element's
\* (hyphenated) and an SVG element's (not an HTMLElement).
FocusTags ==
  {"a", "area", "button", "details", "iframe", "object", "input", "select",
   "textarea", "audio", "video", "div", "x-el", "circle"}

\* Elements attachShadow accepts, among FocusTags.
ShadowHostTags == {"div", "x-el"}

FocusElements ==
  {e \in [tag : FocusTags, href : BOOLEAN, disabled : BOOLEAN, ariaDisabled : BOOLEAN,
          contentEditable : BOOLEAN, controls : BOOLEAN, tabindex : {"none", "0", "-1"},
          shadowRoot : {"none", "plain", "delegatesFocus"}] :
     e.shadowRoot # "none" => e.tag \in ShadowHostTags}

\* element instanceof HTMLElement
instanceofHTMLElement(e) == e.tag # "circle"

\* element.matches(knownFocusableElements), line 109.
matchesKnownFocusable(e) ==
  \/ e.tag \in {"a", "area"} /\ e.href
  \/ e.tag \in {"button", "input", "select", "textarea"} /\ ~e.disabled
  \/ e.tag \in {"details", "iframe", "object"}
  \/ e.contentEditable
  \/ e.tabindex = "0"
  \/ e.tag \in {"audio", "video"} /\ e.controls

\* element.localName.includes('-')
localNameHasHyphen(e) == e.tag = "x-el"

\* isDisabledCustomElement, were aria-disabled not looked at.
isDisabledCustomElement_disabledOnly(e) == localNameHasHyphen(e) /\ e.disabled

\* Lines 115-116.
isDisabledCustomElement(e) == localNameHasHyphen(e) /\ (e.disabled \/ e.ariaDisabled)

\* Lines 103-121.
isFocusable(e) ==
  IF ~instanceofHTMLElement(e) THEN FALSE
  ELSE IF matchesKnownFocusable(e) THEN TRUE
  ELSE IF isDisabledCustomElement(e) THEN FALSE
  ELSE e.shadowRoot = "delegatesFocus"

CallIsFocusable ==
  /\ op = "none"
  /\ \E e \in FocusElements :
       /\ args' = [element |-> e]
       /\ result' = isFocusable(e)
  /\ op' = "isFocusable"
  /\ pc' = "done"
  /\ UNCHANGED <<domVars, focused, walkVars, current, eventVars>>

NextFocusable == CallIsFocusable

----------------------------------------------------------------------------
Idle ==
  /\ focused = null
  /\ op = "none"
  /\ wArgs = <<>>
  /\ stack = <<>>
  /\ out = <<>>
  /\ visits = <<>>
  /\ pc = "idle"
  /\ current = null
  /\ args = <<>>
  /\ result = null
  /\ ev = <<>>
  /\ element = <<>>
  /\ options = <<>>
  /\ copy = <<>>
  /\ dispatched = FALSE

Init == InitDom /\ Idle

\* The event, randomID and isFocusable helpers read no tree: theirs is a
\* document without nodes.
InitEvent ==
  /\ nodeKind = <<>>
  /\ parentNode = <<>>
  /\ host = <<>>
  /\ assignedSlot = <<>>
  /\ Idle

SpecWalk == Init /\ [][NextWalk]_vars

SpecAncestors == Init /\ [][NextAncestors]_vars

SpecActive == Init /\ [][NextActive]_vars

SpecEvent == InitEvent /\ [][NextEvent]_vars

SpecRandom == InitEvent /\ [][NextRandom]_vars

SpecFocusable == InitEvent /\ [][NextFocusable]_vars

----------------------------------------------------------------------------
(* Properties.                                                              *)

Range(seq) == {seq[i] : i \in 1..Len(seq)}

Pos(seq, n) == CHOOSE i \in 1..Len(seq) : seq[i] = n

WalkRunning == op = "walk" /\ wArgs.node # null

WalkDone == WalkRunning /\ pc = "done"

\* The default predicates: no type filter, keep always true, prune always false.
DefaultArgs == wArgs.whatToShow = 0 /\ wArgs.filterFalse = {} /\ wArgs.skipTrue = {}

\* The calls made from the frame of node n.
VisitedFrom(n) == {v[1] : v \in {w \in Range(visits) : w[2] = n}}

Visited == {v[1] : v \in Range(visits)}

\* The nodes whose frames enclose the call that visited n (n's branch path).
RECURSIVE Enclosing(_)
Enclosing(n) ==
  LET from == {v[2] : v \in {w \in Range(visits) : w[1] = n}} \ {null}
  IN from \cup UNION {Enclosing(m) : m \in from}

\* A plain depth-first pre-order traversal over ordinary children.
RECURSIVE PlainPreOrder(_)
RECURSIVE PlainPreOrderEach(_, _)
PlainPreOrder(n) == <<n>> \o PlainPreOrderEach(childNodes(n), 1)

PlainPreOrderEach(seq, i) ==
  IF i > Len(seq) THEN <<>> ELSE PlainPreOrder(seq[i]) \o PlainPreOrderEach(seq, i + 1)

NoShadowNoSlot(n) ==
  \A m \in Range(PlainPreOrder(n)) : shadowRoot(m) = null /\ ~isHTMLSlotElement(m)

\* C1: on a tree without shadow hosts and without slots, a fully consumed
\* walk with the default predicates yields the plain depth-first pre-order
\* sequence of the tree (root first, children in document order).
C1_PlainPreOrder ==
  (WalkDone /\ DefaultArgs /\ NoShadowNoSlot(wArgs.node))
    => out = PlainPreOrder(wArgs.node)

\* C1 witness: such a walk over a whole tree in which a node has two children
\* and a child has a child of its own.
C1_Witness ==
  /\ WalkDone /\ DefaultArgs /\ NoShadowNoSlot(wArgs.node)
  /\ Len(out) = MaxNode
  /\ \E n \in Nodes : Len(childNodes(n)) >= 2
  /\ \E n \in Nodes : parentNode[n] # null /\ childNodes(n) # <<>>

\* Composed parent: the assigned slot, else the host of a shadow root, else
\* the ordinary parent.
ComposedParent(n) ==
  IF assignedSlot[n] # null THEN assignedSlot[n]
  ELSE IF isShadowRoot(n) THEN host[n]
  ELSE parentNode[n]

RECURSIVE ComposedParentChain(_)
ComposedParentChain(n) ==
  IF ComposedParent(n) = null THEN <<>>
  ELSE <<ComposedParent(n)>> \o ComposedParentChain(ComposedParent(n))

\* x is emitted inside the branch of s: called from the frame of s, yielded
\* after s, and everything yielded between the two lies in the branch of s.
InBranch(x, s) ==
  /\ <<x, s>> \in Range(visits)
  /\ s \in Range(out) /\ x \in Range(out)
  /\ Pos(out, s) < Pos(out, x)
  /\ \A i \in (Pos(out, s) + 1)..(Pos(out, x) - 1) : s \in Enclosing(out[i])

\* No light-DOM child of a shadow host is visited from the host's frame.
HostChildrenNotDescended ==
  \A v \in Range(visits) :
    v[2] # null /\ v[1] # null /\ shadowRoot(v[2]) # null => parentNode[v[1]] # v[2]

\* C2, as claimed: in a walk started from a composed ancestor of a slot, every
\* node assigned to the slot is emitted inside the slot's branch, and no
\* light-DOM child of a host is visited as the host's child.
C2_AssignedInSlotBranch ==
  (WalkDone /\ DefaultArgs) =>
    /\ \A s \in Nodes, x \in Nodes :
         (/\ isHTMLSlotElement(s)
          /\ assignedSlot[x] = s
          /\ wArgs.node \in Range(ComposedParentChain(s)))
           => InBranch(x, s)
    /\ HostChildrenNotDescended

\* C2, amended: whenever the walk visits a slot, every node of the slot's
\* flattened assigned nodes is emitted inside the slot's branch, and no
\* light-DOM child of a host is visited as the host's child.
C2_FlattenedInSlotBranch ==
  (WalkDone /\ DefaultArgs) =>
    /\ \A s \in Visited :
         isHTMLSlotElement(s) =>
           \A x \in Range(assignedNodesFlatten(s)) : InBranch(x, s)
    /\ HostChildrenNotDescended

\* C2 witness: a walk from a host that emitted, in the branch of a slot, a
\* node that is assigned to another slot nested in it.
C2_Witness ==
  /\ WalkDone /\ DefaultArgs
  /\ shadowRoot(wArgs.node) # null
  /\ \E s \in Visited, y \in Nodes :
       /\ isHTMLSlotElement(s)
       /\ y \in Range(assignedNodesFlatten(s))
       /\ assignedSlot[y] \notin {s, null}
       /\ InBranch(y, s)

\* C3: once the walk has reached a host with an attached shadow root, the
\* shadow root is not among the emitted nodes, and every call made from the
\* host's frame is on a child of the shadow root.
C3_ShadowRootNotEmitted ==
  WalkRunning =>
    \A h \in Visited :
      (isHTMLElement(h) /\ shadowRoot(h) # null) =>
        /\ shadowRoot(h) \notin Range(out)
        /\ shadowRoot(h) \notin Visited
        /\ \A c \in VisitedFrom(h) : parentNode[c] = shadowRoot(h)

\* C3 witness: a finished walk that went through a host into a child of its
\* shadow root and emitted both.
C3_Witness ==
  /\ WalkDone
  /\ \E h \in Visited, c \in Nodes :
       /\ h # wArgs.node
       /\ shadowRoot(h) # null
       /\ c \in VisitedFrom(h)
       /\ h \in Range(out) /\ c \in Range(out)

\* The branch is left at this node: the type filter is active and fails, or
\* prune is true.
TypeFilterFails(n) == wArgs.whatToShow # 0 /\ nodeType(n) # wArgs.whatToShow
Pruned(n) == n \in wArgs.skipTrue

\* The walk with keep always true, for the same type filter and prune.
RECURSIVE WalkKeepAll(_)
RECURSIVE WalkKeepAllEach(_, _)
WalkKeepAll(n) ==
  IF TypeFilterFails(n) \/ Pruned(n) THEN <<>>
  ELSE <<n>> \o WalkKeepAllEach(composedChildren(n), 1)

WalkKeepAllEach(seq, i) ==
  IF i > Len(seq) THEN <<>> ELSE WalkKeepAll(seq[i]) \o WalkKeepAllEach(seq, i + 1)

\* C4: keep only decides emission: what a finished walk yielded is what the
\* walk with keep always true yields, restricted to the nodes keep accepts,
\* in the same order.
C4_KeepOnlyDecidesEmission ==
  WalkDone => out = SelectSeq(WalkKeepAll(wArgs.node), filter)

\* C4 witness: a finished walk whose keep refused a node that passes the
\* type filter and prune, and which emitted a composed child of that node.
C4_Witness ==
  /\ WalkDone
  /\ \E n \in Visited, c \in Nodes :
       /\ ~filter(n) /\ ~TypeFilterFails(n) /\ ~Pruned(n)
       /\ c \in VisitedFrom(n)
       /\ c \in Range(out)

\* C5: a node that fails the active type filter or is pruned is never
\* emitted and no call is made from it, so nothing below it is reached
\* through it, whatever keep answers.
C5_RejectedBranchStops ==
  WalkRunning =>
    \A n \in Nodes :
      (TypeFilterFails(n) \/ Pruned(n)) =>
        /\ n \notin Range(out)
        /\ VisitedFrom(n) = {}

\* C5 witness: a finished walk that visited a type-rejected node and a
\* pruned node, each with composed children keep accepts, and emitted others.
C5_Witness ==
  /\ WalkDone
  /\ out # <<>>
  /\ \E n \in Visited, m \in Visited :
       /\ TypeFilterFails(n) /\ ~Pruned(n)
       /\ Pruned(m) /\ ~TypeFilterFails(m)
       /\ \E i \in 1..Len(composedChildren(m)) : filter(composedChildren(m)[i])

AncestorsDone == op = "ancestors" /\ pc = "done"

\* C6: deepContains(A, B) is true exactly when A is among the nodes that
\* composedAncestors(B) yields; deepContains(A, A) is false.
C6_DeepContainsIffAncestor ==
  AncestorsDone =>
    /\ \A A \in Nodes : deepContains(A, args.node) <=> A \in Range(out)
    /\ ~deepContains(args.node, args.node)

\* C7: composedAncestors(node) yields the chain of composed parents of the
\* node, nearest first, without the node itself, up to the first node that
\* has no composed parent.
C7_AncestorsAreComposedParentChain ==
  AncestorsDone =>
    /\ out = ComposedParentChain(args.node)
    /\ args.node \notin Range(out)

ActiveDone == op = "getDeepActiveElement"

\* C8: when the active element of root hosts a shadow root that has no
\* active element of its own, getDeepActiveElement(root) returns that host.
C8_FallsBackToHost ==
  ActiveDone =>
    LET a == activeElement(args.root)
    IN (a # null /\ shadowRoot(a) # null /\ activeElement(shadowRoot(a)) = null)
         => result = a

\* The innermost active element under root: the active element, followed
\* into shadow roots for as long as the shadow root has an active element.
RECURSIVE Innermost(_)
Innermost(a) ==
  IF shadowRoot(a) # null /\ activeElement(shadowRoot(a)) # null
    THEN Innermost(activeElement(shadowRoot(a)))
    ELSE a

\* C9: when the active element of root hosts a shadow root with an active
\* element of its own, at any depth of nesting, getDeepActiveElement(root)
\* returns the innermost active element.
C9_ReturnsInnermost ==
  ActiveDone =>
    LET a == activeElement(args.root)
    IN (a # null /\ shadowRoot(a) # null /\ activeElement(shadowRoot(a)) # null)
         => result = Innermost(a)

RedispatchDone == op = "redispatch" /\ pc = "done"

\* C10: when dispatchEvent reported cancellation, preventDefault was called
\* on the original event, after the dispatch, and false is returned; when it
\* did not, preventDefault was not called and true is returned.
C10_CancellationForwarded ==
  RedispatchDone =>
    /\ ~dispatched =>
         /\ result = FALSE
         /\ ev.calls[Len(ev.calls)] = "preventDefault"
         /\ ev.calls[Len(ev.calls) - 1] = "dispatchEvent"
    /\ dispatched =>
         /\ result = TRUE
         /\ "preventDefault" \notin Range(ev.calls)

\* C10 witness: a listener cancelled the cancelable copy of an event.
C10_Witness ==
  /\ RedispatchDone
  /\ ~dispatched
  /\ copy.cancelable
  /\ "preventDefault" \in Range(ev.calls)

CopyMade == op = "redispatch" /\ pc \in {"line34", "line35", "done"}

\* C11: each init field of the dispatched copy (bubbles, cancelable,
\* composed) has the value options gives it when options has the field, and
\* the original event's value otherwise.
C11_CopyMergesOriginalAndOptions ==
  CopyMade =>
    \A f \in EventInitFields :
      copy[f] = IF f \in DOMAIN options THEN options[f] ELSE ev[f]

\* The condition of line 29, as the claim states it.
MustStopPropagation == ev.bubbles /\ (~element.shadowRoot \/ ev.composed)

C12_EmptyForNonPositiveLength ==
  (op = "randomID" /\ args.length <= 0) => result = <<>>

IsDisabledCustom(e) == e.tag = "x-el" /\ (e.disabled \/ e.ariaDisabled)

\* C13, as claimed: isFocusable returns false for every explicitly disabled
\* custom element, whatever its other attributes and its shadow root.
C13_DisabledCustomNeverFocusable ==
  (op = "isFocusable" /\ IsDisabledCustom(args.element)) => result = FALSE

\* C13, amended: isFocusable returns false for every explicitly disabled
\* custom element that has neither a non-negative tabindex nor
\* contentEditable="true", whether or not its shadow root delegates focus.
C13_DisabledCustomWithoutTabindex ==
  (/\ op = "isFocusable"
   /\ IsDisabledCustom(args.element)
   /\ args.element.tabindex # "0"
   /\ ~args.element.contentEditable)
    => result = FALSE

\* C13 witness: an aria-disabled custom element whose shadow root delegates
\* focus was reported not focusable.
C13_Witness ==
  /\ op = "isFocusable"
  /\ args.element.tag = "x-el"
  /\ args.element.ariaDisabled /\ ~args.element.disabled
  /\ args.element.shadowRoot = "delegatesFocus"
  /\ args.element.tabindex = "-1"
  /\ result = FALSE

\* The nodes the frame of h recursed into, in the order of the calls.
ChildrenWalked(h) ==
  LET s == SelectSeq(visits, LAMBDA v : v[2] = h)
  IN [i \in 1..Len(s) |-> s[i][1]]

\* C14: with no type filter, keep always true and prune always false, the
\* composed children of a node hosting a shadow tree are all the immediate
\* children of its shadow root, of every node kind, in document order, and
\* none of the host's light children.
C14_ShadowChildrenOfEveryKind ==
  (WalkDone /\ DefaultArgs) =>
    \A h \in Visited \ {null} :
      (isHTMLElement(h) /\ shadowRoot(h) # null) =>
        ChildrenWalked(h) = childNodes(shadowRoot(h))

\* A walk whose root is null.
NullRootWalk == op = "walk" /\ wArgs.node = null

NoDup(seq) == \A i, j \in 1..Len(seq) : seq[i] = seq[j] => i = j

\* C17: on an unchanged finite tree a walk from a node never throws, never
\* enters or emits a node twice, and every next() either enters a node not
\* yet entered or ends the walk: the walk ends after at most one next() per
\* node plus one, each node emitted at most once.
C17_TerminatesWithoutRepeats ==
  [][(op' = "walk" /\ wArgs'.node # null) =>
       /\ pc' \in {"start", "yield", "done"}
       /\ NoDup(out')
       /\ NoDup([i \in 1..Len(visits') |-> visits'[i][1]])
       /\ Len(visits') <= MaxNode
       /\ pc' = "start" \/ pc' = "done" \/ Len(visits') > Len(visits)]_vars

C17_Witness ==
  /\ WalkDone
  /\ Len(out) >= 4
  /\ NoDup(out)
  /\ \E h, s, y \in Range(out) :
       /\ isHTMLElement(h) /\ shadowRoot(h) # null
       /\ isHTMLSlotElement(s)
       /\ assignedSlot[y] = s
       /\ parentNode[y] = h

====
